---- MODULE Spec2Model ----
(***************************************************************************)
(* A model of the albatross regression framework:                          *)
(*   - RegressionModel (albatross/core/model.h): fit / predict /           *)
(*     fit_and_predict / save / load and the fallback chain of the         *)
(*     predict_*_ virtuals;                                                *)
(*   - the cross validation utilities                                      *)
(*     (include/albatross/src/evaluation/cross_validation_utils.hpp);      *)
(*   - the tuning loop exercised by tests/test_tune.cc.                    *)
(* An assert() that fails aborts the process: the subsystem's pc becomes   *)
(* "aborted" and nothing further happens.                                  *)
(***************************************************************************)
EXTENDS Integers, Sequences, FiniteSets, TLC

VARIABLES
  implemented,    \* which of predict_mean_/predict_marginal_/predict_ the concrete model class defines itself
  m_pc,           \* "none" (no object), "ready", "aborted" (an assert failed)
  has_been_fit_,  \* RegressionModel::has_been_fit_
  fit_completed,  \* history: a fit() on this object ran to completion
  params,         \* the model's parameter value (ParameterHandlingMixin)
  fit_,           \* what the concrete model's fit_ stored
  archive,        \* the last archive written by save(), or NoArchive
  last,           \* the last operation on the object: what it was, how it ended, what it returned
  cv_pc,          \* cross validation: "off", "start", "folded", "predicted", "typed", "direct", "called", "aborted", "capability_error"
  dataset,        \* the RegressionDataset being cross validated
  indexer,        \* the FoldIndexer: fold key -> indices of the fold's test rows
  folds,          \* RegressionFolds: fold key -> RegressionFold
  predictions,    \* fold key -> Prediction (a fit and the features to predict)
  typed,          \* what get_means / get_marginals / get_joints made of predictions
  cv_out,         \* the last call of a cross validation utility and its result
  t_pc,           \* tuning: "off", "ready", "running", "returned", "aborted"
  t_priors,       \* parameter name -> the kind of its prior
  t_start,        \* parameter name -> its value when tune() is called
  t_evals,        \* objective evaluations so far
  t_best,         \* the optimizer's best candidate so far and its objective
  t_cand,         \* the candidate evaluated last and its objective
  t_result,       \* the parameters tune() returned
  t_det,          \* whether the optimizer is a deterministic one
  t_model,        \* the parameters of the tuner's model, where tune() starts
  t_runs,         \* calls of tune() on the tuner so far
  t_first,        \* the parameters the first call of tune() returned
  fo_pc,          \* folds evaluated step by step: "off", "running", "done", "aborted"
  fo_route,       \* how a fold is evaluated: "get_predictions" or "fit_and_predict"
  fo_stage,       \* fold -> "todo", "fit" (fit, not yet predicted) or "done"
  fo_fit,         \* fold -> the fit of the fold's own FitModel
  fo_serial       \* no fold was fit while another was between its fit and its predict

m_vars == <<m_pc, has_been_fit_, fit_completed, params, fit_, archive, last>>

cv_vars == <<cv_pc, dataset, indexer, folds, predictions, typed, cv_out>>

t_vars == <<t_pc, t_priors, t_start, t_evals, t_best, t_cand, t_result,
            t_det, t_model, t_runs, t_first>>

fo_vars == <<fo_pc, fo_route, fo_stage, fo_fit, fo_serial>>

vars == <<implemented, m_pc, has_been_fit_, fit_completed, params, fit_, archive, last,
          cv_pc, dataset, indexer, folds, predictions, typed, cv_out,
          t_pc, t_priors, t_start, t_evals, t_best, t_cand, t_result,
          t_det, t_model, t_runs, t_first,
          fo_pc, fo_route, fo_stage, fo_fit, fo_serial>>

----------------------------------------------------------------------------
(* Bounds of the model.                                                    *)

\* longest feature / target sequence handed to fit and predict
MaxLen == 2

\* most rows of a cross validated dataset; row indices are 0..MaxRows-1
MaxRows == 3

\* longest index list of a fold in a direct call of concatenate_*_predictions
MaxFoldLen == 2

\* the optimizer's cap on objective evaluations (set_maxeval)
MaxEval == 3

----------------------------------------------------------------------------
(* Data.                                                                   *)

Feature == 0..1
ParamValue == 0..1
Fidelity == {"mean", "marginal", "joint"}

SeqsUpTo(S, n) == UNION {[1..k -> S] : k \in 0..n}

FeatureSeqs == SeqsUpTo(Feature, MaxLen)

\* training inputs: the concrete model below keeps only the count and the sum
\* of what it was trained on, so one feature value and one target value give
\* every length, the empty input and every mismatch of lengths
TrainFeatureSeqs == SeqsUpTo({0}, MaxLen)
TrainTargetSeqs == SeqsUpTo({1}, MaxLen)

RECURSIVE SumSeq(_)
SumSeq(s) == IF s = <<>> THEN 0 ELSE Head(s) + SumSeq(Tail(s))

NoArchive == [none |-> TRUE]
NoFit == [sum |-> 0, n |-> 0]
NoValue == [none |-> TRUE]
NoOp == [op |-> "none", outcome |-> "none", calls |-> <<>>, value |-> NoValue]
NoDataset == [features |-> <<>>, targets |-> <<>>]
NoMap == <<>>
Uninitialized == [uninitialized |-> TRUE]
\* an objective value: a number, or not a number
Num(v) == [nan |-> FALSE, v |-> v]
NaN == [nan |-> TRUE, v |-> 0]
\* the failure of an assertion in place of a value
Fatal == [nan |-> TRUE, v |-> 1]
\* no candidate yet
NoCandidate == [x |-> NoMap, f |-> NaN]

----------------------------------------------------------------------------
(* The concrete model.  RegressionModel leaves fit_ and predict_ pure      *)
(* virtual; this is a small deterministic model implementing them: it      *)
(* remembers the sum and the count of the training targets.                *)

FitImpl(features, targets) == [sum |-> SumSeq(targets), n |-> Len(features)]

JointImpl(fit, p, x) ==
  [mean |-> [i \in 1..Len(x) |-> fit.sum + fit.n * x[i] + p],
   covariance |-> [i \in 1..Len(x) |-> [j \in 1..Len(x) |->
                     IF i = j THEN 1 + x[i] + p ELSE x[i] * x[j]]]]

\* the model's own marginal and mean implementations, used when it
\* overrides predict_marginal_ / predict_mean_
MarginalImpl(fit, p, x) ==
  [mean |-> [i \in 1..Len(x) |-> fit.sum + fit.n * x[i] + p],
   variance |-> [i \in 1..Len(x) |-> 1 + x[i] + p]]

MeanImpl(fit, p, x) == [i \in 1..Len(x) |-> fit.sum + fit.n * x[i] + p]

----------------------------------------------------------------------------
(* RegressionModel (model.h).                                              *)

\* entries of the record of calls: the concrete model's own implementation of
\* fit_ / predict_ / predict_marginal_ / predict_mean_, or the base class's default
Own(f) == <<f, "own">>
Default(f) == <<f, "default">>

\* covariance.diagonal()
Diagonal(m) == [i \in 1..Len(m) |-> m[i][i]]

\* a plausible slip: the first row of the covariance instead of its diagonal
FirstRow(m) == [i \in 1..Len(m) |-> m[1][i]]

\* pure virtual predict_: always the concrete model's
predict_(impl, fit, p, x) ==
  [value |-> JointImpl(fit, p, x), calls |-> <<Own("joint")>>]

\* the default predict_marginal_ with the first row taken for the diagonal
default_predict_marginal_row(impl, fit, p, x) ==
  LET full_distribution == predict_(impl, fit, p, x)
  IN [value |-> [mean |-> full_distribution.value.mean,
                 variance |-> FirstRow(full_distribution.value.covariance)],
      calls |-> <<Default("marginal")>> \o full_distribution.calls]

\* the body of RegressionModel::predict_marginal_
default_predict_marginal_(impl, fit, p, x) ==
  LET full_distribution == predict_(impl, fit, p, x)
  IN [value |-> [mean |-> full_distribution.value.mean,
                 variance |-> Diagonal(full_distribution.value.covariance)],
      calls |-> <<Default("marginal")>> \o full_distribution.calls]

\* the body of RegressionModel::predict_mean_
default_predict_mean_(impl, fit, p, x) ==
  LET full_distribution == predict_(impl, fit, p, x)
  IN [value |-> full_distribution.value.mean,
      calls |-> <<Default("mean")>> \o full_distribution.calls]

\* virtual dispatch with the override ignored
predict_marginal_no_override(impl, fit, p, x) ==
  default_predict_marginal_(impl, fit, p, x)

\* virtual dispatch of predict_marginal_: the override when the class has one
predict_marginal_(impl, fit, p, x) ==
  IF "marginal" \in impl
    THEN [value |-> MarginalImpl(fit, p, x), calls |-> <<Own("marginal")>>]
    ELSE default_predict_marginal_(impl, fit, p, x)

\* virtual dispatch of predict_mean_
predict_mean_(impl, fit, p, x) ==
  IF "mean" \in impl
    THEN [value |-> MeanImpl(fit, p, x), calls |-> <<Own("mean")>>]
    ELSE default_predict_mean_(impl, fit, p, x)

\* preds.mean.size() / preds.size() of what a predict variant got back
PredsSize(f, v) == IF f = "mean" THEN Len(v) ELSE Len(v.mean)

\* the three predict specializations: which implementation each one calls
PredictImpl(f, impl, fit, p, x) ==
  CASE f = "joint" -> predict_(impl, fit, p, x)
    [] f = "marginal" -> predict_marginal_(impl, fit, p, x)
    [] f = "mean" -> predict_mean_(impl, fit, p, x)

\* has_been_fit() with the flag never consulted
PredictOutcomeUnchecked(f, hbf, impl, fit, p, x) ==
  LET preds == PredictImpl(f, impl, fit, p, x)
  IN [outcome |-> "ok", calls |-> preds.calls, value |-> preds.value]

\* predict<PredictType>(features): assert(has_been_fit()), the implementation,
\* assert on the size of what it returned.  Sizes stay below 2^31, where the
\* casts to s32 keep the value.
PredictOutcome(f, hbf, impl, fit, p, x) ==
  IF ~hbf
    THEN [outcome |-> "precondition_violation", calls |-> <<>>, value |-> NoValue]
    ELSE LET preds == PredictImpl(f, impl, fit, p, x)
         IN IF PredsSize(f, preds.value) # Len(x)
              THEN [outcome |-> "precondition_violation", calls |-> preds.calls,
                    value |-> NoValue]
              ELSE [outcome |-> "ok", calls |-> preds.calls, value |-> preds.value]

\* the checks of fit() with the emptiness check dropped
FitChecksNoEmpty(features, targets) == Len(features) = Len(targets)

\* the two asserts of fit(features, targets)
FitChecks(features, targets) ==
  /\ Len(features) > 0
  /\ Len(features) = Len(targets)

\* RegressionModel() : has_been_fit_() value-initializes the flag
Construct ==
  /\ m_pc \in {"none", "ready"}
  /\ "joint" \in implemented
  /\ m_pc' = "ready"
  /\ has_been_fit_' = FALSE
  /\ fit_completed' = FALSE
  /\ params' = 0
  /\ fit_' = NoFit
  /\ last' = [NoOp EXCEPT !.op = "construct", !.outcome = "ok"]
  /\ UNCHANGED <<implemented, archive>>
  /\ UNCHANGED <<cv_vars, t_vars, fo_vars>>

SetParams(v) ==
  /\ m_pc = "ready"
  /\ params' = v
  /\ last' = [NoOp EXCEPT !.op = "set_params", !.outcome = "ok"]
  /\ UNCHANGED <<implemented, m_pc, has_been_fit_, fit_completed, fit_, archive>>
  /\ UNCHANGED <<cv_vars, t_vars, fo_vars>>

Fit(features, targets) ==
  /\ m_pc = "ready"
  /\ IF FitChecks(features, targets)
       THEN /\ fit_' = FitImpl(features, targets)
            /\ has_been_fit_' = TRUE
            /\ fit_completed' = TRUE
            /\ last' = [op |-> "fit", features |-> features, targets |-> targets,
                        outcome |-> "ok", calls |-> <<Own("fit")>>, value |-> NoValue]
            /\ m_pc' = "ready"
       ELSE /\ last' = [op |-> "fit", features |-> features, targets |-> targets,
                        outcome |-> "precondition_violation",
                        calls |-> <<>>, value |-> NoValue]
            /\ m_pc' = "aborted"
            /\ UNCHANGED <<fit_, has_been_fit_, fit_completed>>
  /\ UNCHANGED <<implemented, params, archive>>
  /\ UNCHANGED <<cv_vars, t_vars, fo_vars>>

Predict(f, x) ==
  /\ m_pc = "ready"
  /\ LET r == PredictOutcome(f, has_been_fit_, implemented, fit_, params, x)
     IN /\ last' = [op |-> "predict", fidelity |-> f, features |-> x,
                    outcome |-> r.outcome, calls |-> r.calls, value |-> r.value]
        /\ m_pc' = IF r.outcome = "ok" THEN "ready" ELSE "aborted"
  /\ UNCHANGED <<implemented, has_been_fit_, fit_completed, params, fit_, archive>>
  /\ UNCHANGED <<cv_vars, t_vars, fo_vars>>

\* fit(train_features, train_targets); return predict<PredictType>(test_features)
FitAndPredict(f, train_features, train_targets, test_features) ==
  /\ m_pc = "ready"
  /\ IF FitChecks(train_features, train_targets)
       THEN LET fitted == FitImpl(train_features, train_targets)
                \* has_been_fit_ = true by the time predict runs
                r == PredictOutcome(f, TRUE, implemented, fitted, params, test_features)
            IN /\ fit_' = fitted
               /\ has_been_fit_' = TRUE
               /\ fit_completed' = TRUE
               /\ last' = [op |-> "fit_and_predict", fidelity |-> f,
                           features |-> test_features, outcome |-> r.outcome,
                           calls |-> <<Own("fit")>> \o r.calls, value |-> r.value]
               /\ m_pc' = IF r.outcome = "ok" THEN "ready" ELSE "aborted"
       ELSE /\ last' = [op |-> "fit_and_predict", fidelity |-> f,
                        features |-> test_features,
                        outcome |-> "precondition_violation",
                        calls |-> <<>>, value |-> NoValue]
            /\ m_pc' = "aborted"
            /\ UNCHANGED <<fit_, has_been_fit_, fit_completed>>
  /\ UNCHANGED <<implemented, params, archive>>
  /\ UNCHANGED <<cv_vars, t_vars, fo_vars>>

\* save(archive): the parameters and the flag
Save ==
  /\ m_pc = "ready"
  /\ archive' = [parameters |-> params, has_been_fit |-> has_been_fit_]
  /\ last' = [NoOp EXCEPT !.op = "save", !.outcome = "ok"]
  /\ UNCHANGED <<implemented, m_pc, has_been_fit_, fit_completed, params, fit_>>
  /\ UNCHANGED <<cv_vars, t_vars, fo_vars>>

\* load(archive): the parameters and the flag are taken from the archive
Load ==
  /\ m_pc = "ready"
  /\ archive # NoArchive
  /\ params' = archive.parameters
  /\ has_been_fit_' = archive.has_been_fit
  /\ last' = [NoOp EXCEPT !.op = "load", !.outcome = "ok"]
  /\ UNCHANGED <<implemented, m_pc, fit_completed, fit_, archive>>
  /\ UNCHANGED <<cv_vars, t_vars, fo_vars>>

\* get_name() of the model and of another class of model
ModelNames == {"model", "other"}

\* what operator== reads of a model
ThisModel == [name |-> "model", params |-> params, has_been_fit |-> has_been_fit_]

\* the models this one is compared with
OtherModels == [name : ModelNames, params : ParamValue, has_been_fit : BOOLEAN]

\* RegressionModel::operator==, a == b: assert(!has_been_fit()) on a, then
\* the names, the parameters and the flags compared
operator_eq(a, b) ==
  IF a.has_been_fit
    THEN [outcome |-> "precondition_violation", equal |-> FALSE]
    ELSE [outcome |-> "ok",
          equal |-> (a.name = b.name /\ a.params = b.params
                       /\ a.has_been_fit = b.has_been_fit)]

\* a comparison of a with b through operator==
Compare(a, b) ==
  LET r == operator_eq(a, b)
  IN /\ last' = [op |-> "equals", left |-> a, right |-> b, outcome |-> r.outcome,
                 calls |-> <<>>, value |-> r.equal]
     /\ m_pc' = IF r.outcome = "ok" THEN "ready" ELSE "aborted"
     /\ UNCHANGED <<implemented, has_been_fit_, fit_completed, params, fit_, archive>>
     /\ UNCHANGED <<cv_vars, t_vars, fo_vars>>

\* model == other
Equals(other) ==
  /\ m_pc = "ready"
  /\ Compare(ThisModel, other)

\* other == model
EqualsReversed(other) ==
  /\ m_pc = "ready"
  /\ Compare(other, ThisModel)

ModelIdle(pc) ==
  /\ m_pc = pc
  /\ has_been_fit_ = FALSE
  /\ fit_completed = FALSE
  /\ params = 0
  /\ fit_ = NoFit
  /\ archive = NoArchive
  /\ last = NoOp

CVIdle(pc) ==
  /\ cv_pc = pc
  /\ dataset = NoDataset
  /\ indexer = NoMap
  /\ folds = NoMap
  /\ predictions = NoMap
  /\ typed = NoMap
  /\ cv_out = NoOp

FoldsIdle ==
  /\ fo_pc = "off"
  /\ fo_route = "none"
  /\ fo_stage = NoMap
  /\ fo_fit = NoMap
  /\ fo_serial = TRUE

TuneIdle ==
  /\ t_pc = "off"
  /\ t_priors = NoMap
  /\ t_start = NoMap
  /\ t_evals = 0
  /\ t_best = NoCandidate
  /\ t_cand = NoCandidate
  /\ t_result = NoMap
  /\ t_det = FALSE
  /\ t_model = NoMap
  /\ t_runs = 0
  /\ t_first = NoMap

InitModel ==
  /\ implemented \in SUBSET Fidelity
  /\ ModelIdle("none")
  /\ CVIdle("off")
  /\ TuneIdle
  /\ FoldsIdle

NextModel ==
  \/ Construct
  \/ \E v \in ParamValue : SetParams(v)
  \/ \E features \in TrainFeatureSeqs, targets \in TrainTargetSeqs :
       Fit(features, targets)
  \/ \E f \in Fidelity, x \in FeatureSeqs : Predict(f, x)
  \/ \E f \in Fidelity, tf \in TrainFeatureSeqs, tt \in TrainTargetSeqs,
        x \in FeatureSeqs :
       FitAndPredict(f, tf, tt, x)
  \/ Save
  \/ Load
  \/ \E other \in OtherModels : Equals(other)
  \/ \E other \in OtherModels : EqualsReversed(other)

----------------------------------------------------------------------------
(* Cross validation (cross_validation_utils.hpp).                          *)

RowIndex == 0..(MaxRows - 1)

RECURSIVE SortedSeq(_)
SortedSeq(S) ==
  IF S = {} THEN <<>>
  ELSE LET m == CHOOSE x \in S : \A y \in S : x <= y
       IN <<m>> \o SortedSeq(S \ {m})

\* the order in which a std::map is iterated: ascending keys
Keys(m) == SortedSeq(DOMAIN m)

Range(f) == {f[i] : i \in DOMAIN f}

Abs(a) == IF a < 0 THEN -a ELSE a

\* datasets of up to MaxRows rows: the features alternate 0, 1, 0, ... and the
\* targets are any of 0 and 1
Datasets ==
  UNION {{[features |-> [i \in 1..n |-> (i - 1) % 2], targets |-> t] :
            t \in [1..n -> 0..1]} : n \in 1..MaxRows}

\* the ways of grouping rows 1..n into folds 0, 1, ...: fold numbers are given
\* in order of first appearance, leave-one-out being the grouping g[i] = i - 1
Groupings(n) ==
  {g \in [1..n -> 0..(n - 1)] :
     /\ g[1] = 0
     /\ \A i \in 2..n : \E j \in 1..(i - 1) : g[i] <= g[j] + 1}

\* the FoldIndexer of a grouping: each fold's rows (0-based) in ascending order
IndexerOf(g) ==
  [k \in Range(g) |-> SortedSeq({i - 1 : i \in {j \in DOMAIN g : g[j] = k}})]

\* the rows of a dataset at the given 0-based indices, in that order
Subset(ds, indices) ==
  [features |-> [j \in 1..Len(indices) |-> ds.features[indices[j] + 1]],
   targets |-> [j \in 1..Len(indices) |-> ds.targets[indices[j] + 1]]]

\* a fold: the test rows are those of test_indices, the train rows all others
MakeFold(ds, test_indices) ==
  [train_dataset |->
     Subset(ds, SortedSeq((0..(Len(ds.features) - 1)) \ Range(test_indices))),
   test_dataset |-> Subset(ds, test_indices),
   test_indices |-> test_indices]

\* model.fit(dataset).predict(features): a FitModel, then FitModel::predict,
\* which binds the fit to the features without computing anything
FitThenPredict(train, features) ==
  IF FitChecks(train.features, train.targets)
    THEN [ok |-> TRUE,
          prediction |-> [fit |-> FitImpl(train.features, train.targets),
                          features |-> features]]
    ELSE [ok |-> FALSE, prediction |-> NoValue]

\* the lambda predict_group of get_predictions
predict_group(fold) == FitThenPredict(fold.train_dataset, fold.train_dataset.features)

\* what a caller gets who fits each fold and predicts its test features
predict_test(fold) == FitThenPredict(fold.train_dataset, fold.test_dataset.features)

\* get_predictions(model, folds): folds.apply(predict_group)
get_predictions(fs) ==
  LET each == [k \in DOMAIN fs |-> predict_group(fs[k])]
  IN IF \A k \in DOMAIN fs : each[k].ok
       THEN [outcome |-> "ok", value |-> [k \in DOMAIN fs |-> each[k].prediction]]
       ELSE [outcome |-> "precondition_violation", value |-> NoMap]

\* Prediction: which of the model's implementations serves a request
\* (has_valid_predict_mean / _marginal / _joint select the overload)
PredictionSource(impl, f) ==
  CASE f \in impl -> f
    [] f = "marginal" /\ "joint" \in impl -> "joint"
    [] f = "mean" /\ f \notin impl /\ "marginal" \in impl -> "marginal"
    [] f = "mean" /\ f \notin impl /\ "marginal" \notin impl /\ "joint" \in impl -> "joint"
    [] OTHER -> "none"

OwnImpl(f, fit, p, x) ==
  CASE f = "mean" -> MeanImpl(fit, p, x)
    [] f = "marginal" -> MarginalImpl(fit, p, x)
    [] f = "joint" -> JointImpl(fit, p, x)

\* Prediction::get<PredictType>(): the model's own result, or the richer one cut down
PredictionGet(impl, f, pred) ==
  LET src == PredictionSource(impl, f)
      got == OwnImpl(src, pred.fit, 0, pred.features)
  IN CASE src = f -> got
       [] f = "marginal" -> [mean |-> got.mean, variance |-> Diagonal(got.covariance)]
       [] f = "mean" -> got.mean

\* get_predict_types: every prediction asked for the same type
get_predict_types(impl, f, preds) ==
  [k \in DOMAIN preds |-> PredictionGet(impl, f, preds[k])]

\* size() of what a metric takes: a mean vector, or a distribution
PredSize(metric, v) == IF metric = "mean" THEN Len(v) ELSE Len(v.mean)

\* covariance.diagonal() of a marginal or a joint distribution
CovDiagonal(d) == IF "variance" \in DOMAIN d THEN d.variance ELSE Diagonal(d.covariance)

RECURSIVE SumOver(_, _)
SumOver(f, n) == IF n = 0 THEN 0 ELSE f[n] + SumOver(f, n - 1)

\* metrics: the absolute error of a mean vector, and for a distribution the
\* absolute error of its mean plus its variances
MeanMetric(mean, targets) ==
  SumOver([i \in 1..Len(targets) |-> Abs(mean[i] - targets[i])], Len(targets))

DistMetric(d, targets) ==
  MeanMetric(d.mean, targets) + SumOver(CovDiagonal(d), Len(d.mean))

Metric(name, prediction, targets) ==
  IF name = "mean" THEN MeanMetric(prediction, targets)
  ELSE DistMetric(prediction, targets)

\* combine: the per-fold results as one vector, in key order
combine(m) == [i \in 1..Len(Keys(m)) |-> m[Keys(m)[i]]]

\* cross_validated_scores scoring each fold against its train targets
cross_validated_scores_train(metric, fs, preds) ==
  IF \E k \in DOMAIN fs : k \notin DOMAIN preds
    THEN [outcome |-> "fatal", value |-> NoValue]
  ELSE IF \E k \in DOMAIN fs :
            Len(fs[k].test_dataset.features) # PredSize(metric, preds[k])
    THEN [outcome |-> "precondition_violation", value |-> NoValue]
  ELSE [outcome |-> "ok",
        value |-> combine([k \in DOMAIN fs |->
                    Metric(metric, preds[k], fs[k].train_dataset.targets)])]

\* cross_validated_scores(metric, folds, predictions): score_one_group asserts
\* the sizes and applies the metric; predictions.at(key) throws on a missing key
cross_validated_scores(metric, fs, preds) ==
  IF \E k \in DOMAIN fs : k \notin DOMAIN preds
    THEN [outcome |-> "fatal", value |-> NoValue]
  ELSE IF \E k \in DOMAIN fs :
            Len(fs[k].test_dataset.features) # PredSize(metric, preds[k])
    THEN [outcome |-> "precondition_violation", value |-> NoValue]
  ELSE [outcome |-> "ok",
        value |-> combine([k \in DOMAIN fs |->
                    Metric(metric, preds[k], fs[k].test_dataset.targets)])]

\* the overload for a metric on means: the distributions' means, then the above
cross_validated_scores_mean(fs, preds) ==
  LET converted == [k \in DOMAIN preds |-> preds[k].mean]
  IN cross_validated_scores("mean", fs, converted)

\* dataset_size_from_indexer: the sizes of the folds added up
dataset_size_from_indexer(ix) ==
  SumOver([i \in 1..Len(Keys(ix)) |-> Len(ix[Keys(ix)[i]])], Len(Keys(ix)))

\* set_subset(from, indices, &to): to[indices[k]] = from[k]; an index outside
\* the vector trips the vector's bounds assert
RECURSIVE set_subset(_, _, _, _)
set_subset(from, indices, acc, k) ==
  IF k > Len(indices) \/ acc.status # "ok" THEN acc
  ELSE IF indices[k] \notin DOMAIN acc.to
    THEN [acc EXCEPT !.status = "fatal"]
  ELSE set_subset(from, indices,
                  [acc EXCEPT !.to[indices[k]] = from[k],
                              !.writes[indices[k]] = @ + 1],
                  k + 1)

\* the loop of concatenate_*_predictions over the indexer, one vector scattered
RECURSIVE ScatterLoop(_, _, _, _)
ScatterLoop(ix, vectors, keys, acc) ==
  IF keys = <<>> \/ acc.status # "ok" THEN acc
  ELSE LET key == Head(keys)
       IN IF key \notin DOMAIN vectors
            THEN [acc EXCEPT !.status = "fatal"]
          ELSE IF Len(vectors[key]) # Len(ix[key])
            THEN [acc EXCEPT !.status = "precondition_violation"]
          ELSE LET filled == set_subset(vectors[key], ix[key], acc, 1)
               IN ScatterLoop(ix, vectors, Tail(keys),
                    [filled EXCEPT !.number_filled = @ + Len(ix[key])])

\* Eigen::VectorXd pred(n): n entries, none of them written yet
Scattered(ix, vectors) ==
  LET n == dataset_size_from_indexer(ix)
  IN ScatterLoop(ix, vectors, Keys(ix),
       [status |-> "ok", to |-> [i \in 0..(n - 1) |-> Uninitialized],
        writes |-> [i \in 0..(n - 1) |-> 0], number_filled |-> 0])

\* a reassembly that appends the folds one after the other, the indexer's
\* positions ignored
concatenate_mean_predictions_appended(ix, means) ==
  LET r == Scattered([k \in DOMAIN ix |->
                   [j \in 1..Len(ix[k]) |->
                      j - 1 + dataset_size_from_indexer(
                                [q \in {q \in DOMAIN ix : q < k} |-> ix[q]])]],
                means)
  IN IF Cardinality(DOMAIN ix) # Cardinality(DOMAIN means)
       THEN [outcome |-> "precondition_violation", value |-> NoValue, writes |-> NoValue]
     ELSE IF r.status # "ok"
       THEN [outcome |-> r.status, value |-> NoValue, writes |-> NoValue]
     ELSE [outcome |-> "ok", value |-> r.to, writes |-> r.writes]

\* concatenate_mean_predictions(indexer, means)
concatenate_mean_predictions(ix, means) ==
  IF Cardinality(DOMAIN ix) # Cardinality(DOMAIN means)
    THEN [outcome |-> "precondition_violation", value |-> NoValue, writes |-> NoValue]
  ELSE LET n == dataset_size_from_indexer(ix)
           r == Scattered(ix, means)
       IN IF r.status # "ok"
            THEN [outcome |-> r.status, value |-> NoValue, writes |-> NoValue]
          ELSE IF r.number_filled # n
            THEN [outcome |-> "precondition_violation", value |-> NoValue,
                  writes |-> NoValue]
          ELSE [outcome |-> "ok", value |-> r.to, writes |-> r.writes]

\* concatenate_marginal_predictions(indexer, preds): the means and the
\* diagonals of the covariances scattered alike
concatenate_marginal_predictions(ix, preds) ==
  IF Cardinality(DOMAIN ix) # Cardinality(DOMAIN preds)
    THEN [outcome |-> "precondition_violation", value |-> NoValue, writes |-> NoValue]
  ELSE LET n == dataset_size_from_indexer(ix)
           mean == Scattered(ix, [k \in DOMAIN preds |-> preds[k].mean])
           variance == Scattered(ix, [k \in DOMAIN preds |-> CovDiagonal(preds[k])])
       IN IF mean.status # "ok"
            THEN [outcome |-> mean.status, value |-> NoValue, writes |-> NoValue]
          ELSE IF mean.number_filled # n
            THEN [outcome |-> "precondition_violation", value |-> NoValue,
                  writes |-> NoValue]
          ELSE [outcome |-> "ok",
                value |-> [mean |-> mean.to, variance |-> variance.to],
                writes |-> mean.writes]

\* the ends of a utility call: an assert or an uncaught exception ends the run
AfterCall(outcome, pc) == IF outcome = "ok" THEN pc ELSE "aborted"

\* the folds of the dataset under the indexer
CreateFolds ==
  /\ cv_pc = "start"
  /\ folds' = [k \in DOMAIN indexer |-> MakeFold(dataset, indexer[k])]
  /\ cv_pc' = "folded"
  /\ cv_out' = [NoOp EXCEPT !.op = "folds", !.outcome = "ok"]
  /\ UNCHANGED <<implemented, dataset, indexer, predictions, typed>>
  /\ UNCHANGED <<m_vars, t_vars, fo_vars>>

GetPredictions ==
  /\ cv_pc = "folded"
  /\ LET r == get_predictions(folds)
     IN /\ predictions' = r.value
        /\ cv_pc' = AfterCall(r.outcome, "predicted")
        /\ cv_out' = [NoOp EXCEPT !.op = "get_predictions", !.outcome = r.outcome]
  /\ UNCHANGED <<implemented, dataset, indexer, folds, typed>>
  /\ UNCHANGED <<m_vars, t_vars, fo_vars>>

\* a caller's own loop over the folds: fit on the train dataset, FitModel::predict
\* on the test features
PredictTestFeatures ==
  /\ cv_pc = "folded"
  /\ LET each == [k \in DOMAIN folds |-> predict_test(folds[k])]
         ok == \A k \in DOMAIN folds : each[k].ok
     IN /\ predictions' = IF ok THEN [k \in DOMAIN folds |-> each[k].prediction]
                          ELSE NoMap
        /\ cv_pc' = IF ok THEN "predicted" ELSE "aborted"
        /\ cv_out' = [NoOp EXCEPT !.op = "predict_test",
                        !.outcome = IF ok THEN "ok" ELSE "precondition_violation"]
  /\ UNCHANGED <<implemented, dataset, indexer, folds, typed>>
  /\ UNCHANGED <<m_vars, t_vars, fo_vars>>

\* get_means / get_marginals / get_joints: a request the model has no
\* implementation for selects a deleted overload and nothing is returned
GetPredictTypes(f) ==
  /\ cv_pc = "predicted"
  /\ IF PredictionSource(implemented, f) = "none"
       THEN /\ cv_pc' = "capability_error"
            /\ cv_out' = [op |-> "get_predict_types", fidelity |-> f,
                          source |-> "none", outcome |-> "capability_error",
                          calls |-> <<>>, value |-> NoValue]
            /\ UNCHANGED typed
       ELSE /\ cv_pc' = "typed"
            /\ typed' = [fidelity |-> f,
                         values |-> get_predict_types(implemented, f, predictions)]
            /\ cv_out' = [op |-> "get_predict_types", fidelity |-> f,
                          source |-> PredictionSource(implemented, f),
                          outcome |-> "ok", calls |-> <<>>, value |-> NoValue]
  /\ UNCHANGED <<implemented, dataset, indexer, folds, predictions>>
  /\ UNCHANGED <<m_vars, t_vars, fo_vars>>

\* cross_validated_scores with a metric on what the predictions are
CrossValidatedScores ==
  /\ cv_pc = "typed"
  /\ LET metric == IF typed.fidelity = "mean" THEN "mean" ELSE "distribution"
         r == cross_validated_scores(metric, folds, typed.values)
     IN /\ cv_out' = [op |-> "cross_validated_scores", metric |-> metric,
                      outcome |-> r.outcome, calls |-> <<>>, value |-> r.value]
        /\ cv_pc' = AfterCall(r.outcome, "typed")
  /\ UNCHANGED <<implemented, dataset, indexer, folds, predictions, typed>>
  /\ UNCHANGED <<m_vars, t_vars, fo_vars>>

\* cross_validated_scores with a metric on means and distributions as predictions
CrossValidatedScoresMean ==
  /\ cv_pc = "typed"
  /\ typed.fidelity \in {"marginal", "joint"}
  /\ LET r == cross_validated_scores_mean(folds, typed.values)
     IN /\ cv_out' = [op |-> "cross_validated_scores_mean", metric |-> "mean",
                      outcome |-> r.outcome, calls |-> <<>>, value |-> r.value]
        /\ cv_pc' = AfterCall(r.outcome, "typed")
  /\ UNCHANGED <<implemented, dataset, indexer, folds, predictions, typed>>
  /\ UNCHANGED <<m_vars, t_vars, fo_vars>>

ConcatenateMean ==
  /\ cv_pc = "typed"
  /\ typed.fidelity = "mean"
  /\ LET r == concatenate_mean_predictions(indexer, typed.values)
     IN /\ cv_out' = [op |-> "concatenate_mean_predictions", outcome |-> r.outcome,
                      calls |-> <<>>, value |-> r.value, writes |-> r.writes]
        /\ cv_pc' = AfterCall(r.outcome, "typed")
  /\ UNCHANGED <<implemented, dataset, indexer, folds, predictions, typed>>
  /\ UNCHANGED <<m_vars, t_vars, fo_vars>>

ConcatenateMarginal ==
  /\ cv_pc = "typed"
  /\ typed.fidelity \in {"marginal", "joint"}
  /\ LET r == concatenate_marginal_predictions(indexer, typed.values)
     IN /\ cv_out' = [op |-> "concatenate_marginal_predictions", outcome |-> r.outcome,
                      calls |-> <<>>, value |-> r.value, writes |-> r.writes]
        /\ cv_pc' = AfterCall(r.outcome, "typed")
  /\ UNCHANGED <<implemented, dataset, indexer, folds, predictions, typed>>
  /\ UNCHANGED <<m_vars, t_vars, fo_vars>>

\* inputs of the direct calls: any FoldIndexer over the fold keys 0 and 1, and
\* for it means that tell fold and position apart (10 * key + position), as
\* long as the fold's index list or one shorter, under any set of keys
DirectFoldKeys == 0..1

DirectIndexers ==
  UNION {[K -> SeqsUpTo(RowIndex, MaxFoldLen)] : K \in (SUBSET DirectFoldKeys) \ {{}}}

DirectLen(ix, k) == IF k \in DOMAIN ix THEN Len(ix[k]) ELSE 0

DirectMeans(ix) ==
  UNION {{[k \in K |-> [j \in 1..len[k] |-> 10 * k + j]] :
            len \in {l \in [K -> 0..MaxFoldLen] :
                       \A k \in K : l[k] \in {DirectLen(ix, k), DirectLen(ix, k) - 1}}} :
         K \in (SUBSET DirectFoldKeys) \ {{}}}

\* concatenate_mean_predictions called with an indexer and means of the caller's
DirectConcatenateMean ==
  /\ cv_pc = "direct"
  /\ \E ix \in DirectIndexers : \E means \in DirectMeans(ix) :
       /\ indexer' = ix
       /\ typed' = [fidelity |-> "mean", values |-> means]
       /\ LET r == concatenate_mean_predictions(ix, means)
          IN /\ cv_out' = [op |-> "concatenate_mean_predictions",
                           outcome |-> r.outcome,
                           calls |-> <<>>, value |-> r.value, writes |-> r.writes]
             /\ cv_pc' = AfterCall(r.outcome, "called")
  /\ UNCHANGED <<implemented, dataset, folds, predictions>>
  /\ UNCHANGED <<m_vars, t_vars, fo_vars>>

\* concatenate_marginal_predictions called with an indexer and marginals of the caller's
DirectConcatenateMarginal ==
  /\ cv_pc = "direct"
  /\ \E ix \in DirectIndexers : \E means \in DirectMeans(ix) :
       /\ indexer' = ix
       /\ LET preds == [k \in DOMAIN means |->
                          [mean |-> means[k],
                           variance |-> [j \in DOMAIN means[k] |-> means[k][j] + 1]]]
              r == concatenate_marginal_predictions(ix, preds)
          IN /\ typed' = [fidelity |-> "marginal", values |-> preds]
             /\ cv_out' = [op |-> "concatenate_marginal_predictions",
                           outcome |-> r.outcome,
                           calls |-> <<>>, value |-> r.value, writes |-> r.writes]
             /\ cv_pc' = AfterCall(r.outcome, "called")
  /\ UNCHANGED <<implemented, dataset, folds, predictions>>
  /\ UNCHANGED <<m_vars, t_vars, fo_vars>>

\* a cross validation starts from a dataset and the indexer of a grouping of
\* its rows; a direct call of the reassembly starts from nothing
InitCV ==
  /\ implemented \in SUBSET Fidelity
  /\ ModelIdle("off")
  /\ TuneIdle
  /\ FoldsIdle
  /\ \/ /\ cv_pc = "start"
        /\ dataset \in Datasets
        /\ indexer \in {IndexerOf(g) : g \in Groupings(Len(dataset.features))}
        /\ folds = NoMap
        /\ predictions = NoMap
        /\ typed = NoMap
        /\ cv_out = NoOp
     \/ /\ implemented = Fidelity
        /\ CVIdle("direct")

NextCV ==
  \/ CreateFolds
  \/ GetPredictions
  \/ PredictTestFeatures
  \/ \E f \in Fidelity : GetPredictTypes(f)
  \/ CrossValidatedScores
  \/ CrossValidatedScoresMean
  \/ ConcatenateMean
  \/ ConcatenateMarginal
  \/ DirectConcatenateMean
  \/ DirectConcatenateMarginal

SpecCV == InitCV /\ [][NextCV]_vars


SpecModel == InitModel /\ [][NextModel]_vars

----------------------------------------------------------------------------
(* Tuning (the tuner of tests/test_tune.cc).                               *)

ParamNames == {"length_scale", "sigma"}
\* the calls of tuner.tune() in test_with_prior
TuneCalls == 2
\* the parameters of the test model before tuning
DefaultParams == [length_scale |-> 0, sigma |-> 1]
TuneValue == 0..2
PriorKind == {"none", "positive", "gaussian", "fixed"}

\* Prior::is_valid: a positive prior admits the values above zero
is_valid(prior, v) == prior # "positive" \/ v > 0

\* Prior::log_likelihood: a gaussian prior centred on mu, a fixed prior with
\* a constant density, flat otherwise
log_likelihood(prior, mu, v) ==
  IF prior = "gaussian" THEN 0 - (v - mu) * (v - mu)
  ELSE IF prior = "fixed" THEN 0 - 1
  ELSE 0

\* params_are_valid(): every parameter within its prior's support
params_are_valid(priors, x) == \A p \in ParamNames : is_valid(priors[p], x[p])

\* prior_log_likelihood(): the priors' log likelihoods added up
prior_log_likelihood(priors, start, x) ==
  log_likelihood(priors["length_scale"], start["length_scale"], x["length_scale"])
    + log_likelihood(priors["sigma"], start["sigma"], x["sigma"])

\* the aggregated cross validated metric of the model at parameters x: not a
\* number where sigma is zero, least at length_scale 2 and sigma 1
CVMetric(x) ==
  IF x["sigma"] = 0 THEN NaN
  ELSE Num((x["length_scale"] - 2) * (x["length_scale"] - 2)
             + (x["sigma"] - 1) * (x["sigma"] - 1))

\* an objective that treats parameters outside a prior's support as fatal
ObjectiveFatal(priors, start, x) ==
  IF ~params_are_valid(priors, x) THEN Fatal
  ELSE IF CVMetric(x) = NaN THEN Fatal
  ELSE Num(CVMetric(x).v - prior_log_likelihood(priors, start, x))

\* the objective of a candidate: NaN outside a prior's support or where the
\* metric is NaN, else the metric less the prior log likelihood
Objective(priors, start, x) ==
  IF ~params_are_valid(priors, x) THEN NaN
  ELSE IF CVMetric(x) = NaN THEN NaN
  ELSE Num(CVMetric(x).v - prior_log_likelihood(priors, start, x))

\* candidates with the fixed parameters searched like the others
CandidatesAll(priors, start) == [ParamNames -> TuneValue]

\* the candidates the optimizer may propose: parameters with a fixed prior
\* keep their value
Candidates(priors, start) ==
  {x \in [ParamNames -> TuneValue] :
     \A p \in ParamNames : priors[p] = "fixed" => x[p] = start[p]}

\* a deterministic optimizer: from its best point it steps one parameter,
\* length_scale after an odd number of evaluations and sigma after an even
\* one, to the next value; a fixed parameter is not stepped
Stepped(evals) == IF evals % 2 = 1 THEN "length_scale" ELSE "sigma"

DeterministicStep(priors, best, evals) ==
  [p \in ParamNames |->
     IF p = Stepped(evals) /\ priors[p] # "fixed"
       THEN (best[p] + 1) % 3 ELSE best[p]]

\* the optimizer's next proposals
Propose(det, priors, start, best, evals) ==
  IF det THEN {DeterministicStep(priors, best, evals)} \cap Candidates(priors, start)
  ELSE Candidates(priors, start)

\* the optimizer keeping whatever it evaluated last as its best
BetterAlways(f, best) == TRUE

\* the optimizer's comparison: a NaN objective is a rejected candidate, a
\* number improves on NaN and on a larger number
Better(f, best) ==
  /\ ~f.nan
  /\ best.f.nan \/ f.v < best.f.v

\* one objective evaluation reported to the optimizer
Evaluate(x) ==
  LET f == Objective(t_priors, t_start, x)
  IN /\ t_cand' = [x |-> x, f |-> f]
     /\ t_evals' = t_evals + 1
     /\ IF f = Fatal
          THEN t_pc' = "aborted" /\ UNCHANGED t_best
          ELSE /\ t_pc' = "running"
               /\ t_best' = IF t_best = NoCandidate \/ Better(f, t_best)
                              THEN [x |-> x, f |-> f] ELSE t_best

\* tune(): the optimizer starts at the parameters of the tuner's model
TuneStart ==
  /\ t_pc = "ready"
  /\ Evaluate(t_model)
  /\ t_runs' = t_runs + 1
  /\ UNCHANGED <<t_priors, t_start, t_result, t_det, t_model, t_first>>
  /\ UNCHANGED <<implemented, m_vars, cv_vars, fo_vars>>

\* the optimizer proposes a candidate and is given its objective
TuneStep ==
  /\ t_pc = "running"
  /\ t_evals < MaxEval
  /\ \E x \in Propose(t_det, t_priors, t_start, t_best.x, t_evals) : Evaluate(x)
  /\ UNCHANGED <<t_priors, t_start, t_result, t_det, t_model, t_runs, t_first>>
  /\ UNCHANGED <<implemented, m_vars, cv_vars, fo_vars>>

\* a tuner returning the candidate it evaluated last
ReturnsLast(best, cand) == cand.x

\* what tune() returns: the optimizer's best point
Returns(best, cand) == best.x

\* the optimizer stops, converged or at its cap (the deterministic one at its
\* cap), and tune() returns its best, which it leaves in the tuner's model
TuneReturn ==
  /\ t_pc = "running"
  /\ t_det => t_evals = MaxEval
  /\ t_pc' = "returned"
  /\ t_result' = Returns(t_best, t_cand)
  /\ t_model' = Returns(t_best, t_cand)
  /\ UNCHANGED <<t_priors, t_start, t_evals, t_best, t_cand, t_det, t_runs, t_first>>
  /\ UNCHANGED <<implemented, m_vars, cv_vars, fo_vars>>

\* tuner.tune() called again on the same tuner (test_with_prior)
TuneAgain ==
  /\ t_pc = "returned"
  /\ t_runs < TuneCalls
  /\ t_pc' = "ready"
  /\ t_first' = t_result
  /\ t_result' = NoMap
  /\ t_evals' = 0
  /\ t_best' = NoCandidate
  /\ t_cand' = NoCandidate
  /\ UNCHANGED <<t_priors, t_start, t_det, t_model, t_runs>>
  /\ UNCHANGED <<implemented, m_vars, cv_vars, fo_vars>>

InitTune ==
  /\ implemented = Fidelity
  /\ ModelIdle("off")
  /\ CVIdle("off")
  /\ FoldsIdle
  /\ t_pc = "ready"
  /\ t_priors \in [ParamNames -> PriorKind]
  /\ t_start \in [ParamNames -> TuneValue]
  /\ t_evals = 0
  /\ t_best = NoCandidate
  /\ t_cand = NoCandidate
  /\ t_result = NoMap
  /\ t_det \in BOOLEAN
  /\ t_model = t_start
  /\ t_runs = 0
  /\ t_first = NoMap

NextTune ==
  \/ TuneStart
  \/ TuneStep
  \/ TuneReturn
  \/ TuneAgain

SpecTune == InitTune /\ [][NextTune]_vars

\* the optimizer's loop is a loop of the program: it keeps taking steps
SpecTuneFair == SpecTune /\ WF_vars(NextTune)

----------------------------------------------------------------------------
(* The folds of one cross validation evaluated step by step: each fold is  *)
(* fit, then predicted, and the steps of different folds come in any       *)
(* order.                                                                  *)

Routes == {"get_predictions", "fit_and_predict"}

\* a fold evaluation that keeps every fit in the model object
FitTargetModel(route) == "model"

\* where the fit of a fold goes: model.fit(dataset) on the const model of
\* get_predictions makes a FitModel of the fold's own; fit() inside
\* fit_and_predict stores the fit in the model object and sets has_been_fit_
FitTarget(route) == IF route = "fit_and_predict" THEN "model" ELSE "fit_model"

\* the fit step of fold k
FoldFit(k) ==
  /\ fo_pc = "running"
  /\ fo_stage[k] = "todo"
  /\ LET train == folds[k].train_dataset
     IN IF ~FitChecks(train.features, train.targets)
          THEN /\ fo_pc' = "aborted"
               /\ UNCHANGED <<fo_stage, fo_fit, fo_serial, fit_, has_been_fit_,
                              fit_completed>>
          ELSE /\ fo_stage' = [fo_stage EXCEPT ![k] = "fit"]
               /\ fo_serial' = (fo_serial /\ \A j \in DOMAIN fo_stage : fo_stage[j] # "fit")
               /\ fo_pc' = fo_pc
               /\ IF FitTarget(fo_route) = "model"
                    THEN /\ fit_' = FitImpl(train.features, train.targets)
                         /\ has_been_fit_' = TRUE
                         /\ fit_completed' = TRUE
                         /\ UNCHANGED fo_fit
                    ELSE /\ fo_fit' = [fo_fit EXCEPT
                                         ![k] = FitImpl(train.features, train.targets)]
                         /\ UNCHANGED <<fit_, has_been_fit_, fit_completed>>
  /\ UNCHANGED <<implemented, m_pc, params, archive, last>>
  /\ UNCHANGED <<cv_pc, dataset, indexer, folds, predictions, typed, cv_out>>
  /\ UNCHANGED <<fo_route, t_vars>>

\* the prediction of fold k from a fit: the Prediction that get_predictions'
\* lambda builds, or the joint distribution that fit_and_predict returns
FoldPrediction(route, k, fit) ==
  IF route = "get_predictions"
    THEN [fit |-> fit, features |-> predict_group(folds[k]).prediction.features]
    ELSE PredictOutcome("joint", TRUE, implemented, fit, params,
                        folds[k].test_dataset.features).value

\* the predict step of fold k, with the fit where the fit step put it
FoldPredict(k) ==
  /\ fo_pc = "running"
  /\ fo_stage[k] = "fit"
  /\ LET fit == IF FitTarget(fo_route) = "model" THEN fit_ ELSE fo_fit[k]
     IN predictions' = [predictions EXCEPT ![k] = FoldPrediction(fo_route, k, fit)]
  /\ fo_stage' = [fo_stage EXCEPT ![k] = "done"]
  /\ fo_pc' = IF \A j \in DOMAIN fo_stage : j = k \/ fo_stage[j] = "done"
                THEN "done" ELSE "running"
  /\ UNCHANGED <<implemented, m_vars>>
  /\ UNCHANGED <<cv_pc, dataset, indexer, folds, typed, cv_out>>
  /\ UNCHANGED <<fo_route, fo_fit, fo_serial, t_vars>>

\* the mapping that evaluating the folds one after the other gives
SequentialPredictions(route) ==
  [k \in DOMAIN folds |->
     FoldPrediction(route, k, FitImpl(folds[k].train_dataset.features,
                                      folds[k].train_dataset.targets))]

InitFolds ==
  /\ implemented = Fidelity
  /\ ModelIdle("off")
  /\ TuneIdle
  /\ cv_pc = "off"
  /\ dataset \in Datasets
  /\ indexer \in {IndexerOf(g) : g \in Groupings(Len(dataset.features))}
  /\ folds = [k \in DOMAIN indexer |-> MakeFold(dataset, indexer[k])]
  /\ predictions = [k \in DOMAIN indexer |-> NoValue]
  /\ typed = NoMap
  /\ cv_out = NoOp
  /\ fo_pc = "running"
  /\ fo_route \in Routes
  /\ fo_stage = [k \in DOMAIN indexer |-> "todo"]
  /\ fo_fit = [k \in DOMAIN indexer |-> NoFit]
  /\ fo_serial = TRUE

NextFolds ==
  \/ \E k \in DOMAIN folds : FoldFit(k)
  \/ \E k \in DOMAIN folds : FoldPredict(k)

SpecFolds == InitFolds /\ [][NextFolds]_vars

----------------------------------------------------------------------------
(* The whole: a run exercises a RegressionModel object, a cross            *)
(* validation, a direct call of the reassembly, a tuner, or the folds of   *)
(* a cross validation step by step.                                        *)

Init == InitModel \/ InitCV \/ InitTune \/ InitFolds

Next == NextModel \/ NextCV \/ NextTune \/ NextFolds

Spec == Init /\ [][Next]_vars

----------------------------------------------------------------------------
(* Properties of RegressionModel.                                          *)

\* a predict or fit_and_predict call that handed a prediction back
Returned(l) == l.op \in {"predict", "fit_and_predict"} /\ l.outcome = "ok"

\* C2, as stated: a predict call returns a result only if a fit on that same
\* model completed earlier.  load() can set has_been_fit_ on a model that was
\* never fit, so this fails.
C2_PredictOnlyAfterOwnFit ==
  (last.op = "predict" /\ last.outcome = "ok") => fit_completed

\* C2, amended: a predict call returns a result only while has_been_fit_ is
\* true, and has_been_fit_ becomes true only when a fit on that model completes
\* or when load() reads a true has_been_fit from an archive; a predict on a
\* model whose flag is false ends in a precondition violation.
C2_PredictOnlyWhenMarkedFit ==
  /\ [](Returned(last) => has_been_fit_)
  /\ []((last.op = "predict" /\ ~has_been_fit_)
          => (last.outcome = "precondition_violation" /\ m_pc = "aborted"))
  /\ [][(~has_been_fit_ /\ has_been_fit_')
          => \/ (last'.op \in {"fit", "fit_and_predict"} /\ fit_completed')
             \/ (last'.op = "load" /\ archive # NoArchive /\ archive.has_been_fit)]_vars

\* C2 witness: a prediction returned by a model that was loaded, never fit
C2_Witness ==
  last.op = "predict" /\ last.outcome = "ok" /\ ~fit_completed /\ has_been_fit_

\* C3: fit(features, targets) with no features, or with features and targets
\* of different lengths, ends in a precondition violation without calling fit_
\* and leaves has_been_fit_ (and the stored fit) as it was; a fit that passes
\* both checks calls fit_ and sets has_been_fit_.
C3_FitPreconditions ==
  [][(last'.op = "fit" /\ last' # last)
       => IF Len(last'.features) = 0 \/ Len(last'.features) # Len(last'.targets)
            THEN /\ last'.outcome = "precondition_violation"
                 /\ last'.calls = <<>>
                 /\ has_been_fit_' = has_been_fit_
                 /\ fit_' = fit_
                 /\ m_pc' = "aborted"
            ELSE /\ last'.outcome = "ok"
                 /\ last'.calls = <<Own("fit")>>
                 /\ has_been_fit_']_vars

\* C3 witness: a fit with mismatched lengths was refused on a model that had
\* not been fit, and the model is still not marked as fit
C3_Witness ==
  /\ last.op = "fit" /\ last.outcome = "precondition_violation"
  /\ Len(last.features) > 0 /\ Len(last.features) # Len(last.targets)
  /\ ~has_been_fit_

\* the joint prediction of the model as it stands, for the features of the
\* last predict call
JointOfLast == PredictImpl("joint", implemented, fit_, params, last.features).value

\* C5: a marginal prediction of a fitted model equals the diagonal of its
\* joint prediction for the same features (same mean, variance i equal to
\* covariance[i][i]), and a mean prediction equals the joint's mean.
C5_MarginalIsDiagonalOfJoint ==
  Returned(last) =>
    /\ last.fidelity = "marginal" =>
         /\ last.value.mean = JointOfLast.mean
         /\ DOMAIN last.value.variance = 1..Len(last.features)
         /\ \A i \in 1..Len(last.features) :
              last.value.variance[i] = JointOfLast.covariance[i][i]
    /\ last.fidelity = "mean" => last.value = JointOfLast.mean

\* C5 witness: a marginal prediction derived from the joint one, for two
\* features whose covariance row and diagonal differ
C5_Witness ==
  /\ Returned(last) /\ last.fidelity = "marginal"
  /\ last.calls = <<Default("marginal"), Own("joint")>>
  /\ Len(last.features) = 2
  /\ JointOfLast.covariance[1][2] # JointOfLast.covariance[2][2]

----------------------------------------------------------------------------
(* Properties of the cross validation utilities.                           *)

\* the (fold, position) pairs of an indexer, and those that name row i
Entries(ix) == {<<f, k>> \in (DOMAIN ix) \X (1..MaxRows) : k <= Len(ix[f])}
EntriesOf(ix, i) == {e \in Entries(ix) : ix[e[1]][e[2]] = i}

\* the fold index lists partition 0..n-1, n being the number of entries
IsPartition(ix) ==
  \A i \in 0..(Cardinality(Entries(ix)) - 1) : Cardinality(EntriesOf(ix, i)) = 1

\* one vector per fold, as long as the fold's index list
VectorsMatch(ix, vectors) ==
  /\ DOMAIN vectors = DOMAIN ix
  /\ \A f \in DOMAIN ix : Len(vectors[f]) = Len(ix[f])

\* C1, as stated: after get_predictions the prediction stored under each fold
\* is the model fit on the fold's train_dataset predicting the fold's
\* test_dataset features, so it has one element per entry of test_indices.
\* get_predictions predicts fold.train_dataset.features instead.
C1_PredictsTestFeatures ==
  (cv_out.op = "get_predictions" /\ cv_out.outcome = "ok") =>
    \A k \in DOMAIN folds :
      /\ predictions[k].fit =
           FitImpl(folds[k].train_dataset.features, folds[k].train_dataset.targets)
      /\ predictions[k].features = folds[k].test_dataset.features
      /\ Len(predictions[k].features) = Len(folds[k].test_indices)

\* C4: a request for a fidelity is served by the model's own implementation
\* when it has one, else derived from a richer one it has (marginal from
\* joint; mean from marginal or joint), and fails with a capability error,
\* returning nothing, when there is none.  RegressionModel: predict_ is pure
\* virtual, so a class without a joint implementation is never constructed
\* and the defaults derive from the joint one.  Prediction: the overloads
\* selected by has_valid_predict_*.
C4_CapabilityDispatch ==
  /\ "joint" \notin implemented => m_pc \in {"none", "off"}
  /\ (last.op = "predict" /\ last.outcome = "ok") =>
       last.calls = IF last.fidelity \in implemented
                      THEN <<Own(last.fidelity)>>
                      ELSE <<Default(last.fidelity), Own("joint")>>
  /\ cv_out.op = "get_predict_types" =>
       LET f == cv_out.fidelity
           richer == CASE f = "mean" -> {"marginal", "joint"}
                       [] f = "marginal" -> {"joint"}
                       [] f = "joint" -> {}
       IN IF f \in implemented
            THEN cv_out.outcome = "ok" /\ cv_out.source = f /\ typed.fidelity = f
          ELSE IF richer \cap implemented # {}
            THEN /\ cv_out.outcome = "ok"
                 /\ cv_out.source \in richer \cap implemented
                 /\ typed.fidelity = f
          ELSE /\ cv_out.outcome = "capability_error"
               /\ cv_pc = "capability_error"
               /\ typed = NoMap

\* C4 witness: a model with its own marginal and joint predictions, asked
\* for the marginal, answered with its own implementation
C4_Witness ==
  /\ last.op = "predict" /\ last.outcome = "ok" /\ last.fidelity = "marginal"
  /\ implemented = {"marginal", "joint"}
  /\ last.calls = <<Own("marginal")>>

\* C6: for an indexer whose index lists partition 0..n-1 and one mean vector
\* per fold of the fold's length, concatenate_mean_predictions returns a
\* vector over 0..n-1 with result[indexer[f][k]] = means[f][k]; every index
\* is written exactly once and none is left unwritten.
C6_ReassemblyScatters ==
  (/\ cv_out.op = "concatenate_mean_predictions"
   /\ IsPartition(indexer)
   /\ VectorsMatch(indexer, typed.values)) =>
    /\ cv_out.outcome = "ok"
    /\ DOMAIN cv_out.value = 0..(Cardinality(Entries(indexer)) - 1)
    /\ \A e \in Entries(indexer) :
         cv_out.value[indexer[e[1]][e[2]]] = typed.values[e[1]][e[2]]
    /\ \A i \in DOMAIN cv_out.value : cv_out.writes[i] = 1

\* C6 witness: two folds whose rows interleave, reassembled
C6_Witness ==
  /\ cv_out.op = "concatenate_mean_predictions" /\ cv_out.outcome = "ok"
  /\ IsPartition(indexer)
  /\ DOMAIN indexer = {0, 1}
  /\ indexer[0] = <<0, 2>> /\ indexer[1] = <<1>>

\* C7, as stated: when the indexer does not cover every row index exactly
\* once, concatenate_mean_predictions and concatenate_marginal_predictions
\* fail instead of returning.  The only check is on the number of entries,
\* which an index named twice does not change.
C7_NonPartitionIsFatal ==
  (/\ cv_out.op \in {"concatenate_mean_predictions", "concatenate_marginal_predictions"}
   /\ ~IsPartition(indexer)) =>
    cv_out.outcome # "ok"

\* C8: cross_validated_scores returns one score per fold, in the indexer's
\* order, the score of fold f being the metric of the prediction of f and
\* the test targets of f (for the overload on means: of the prediction's mean).
C8_OneScorePerFold ==
  (/\ cv_out.op \in {"cross_validated_scores", "cross_validated_scores_mean"}
   /\ cv_out.outcome = "ok") =>
    LET keys == Keys(indexer)
        pred(k) == IF cv_out.op = "cross_validated_scores_mean"
                     THEN typed.values[k].mean ELSE typed.values[k]
    IN /\ DOMAIN cv_out.value = 1..Len(keys)
       /\ \A i \in 1..Len(keys) :
            cv_out.value[i] =
              Metric(cv_out.metric, pred(keys[i]), folds[keys[i]].test_dataset.targets)

\* C8 witness: three folds scored, not all alike
C8_Witness ==
  /\ cv_out.op = "cross_validated_scores" /\ cv_out.outcome = "ok"
  /\ Len(cv_out.value) = 3
  /\ cv_out.value[1] # cv_out.value[2]

----------------------------------------------------------------------------
(* Properties of tuning.                                                   *)

\* C9: a candidate outside a prior's support, or with a NaN metric, gets a
\* NaN objective that is reported to the optimizer as a rejected candidate
\* (the best so far is kept) and never ends the run; the loop goes on and
\* tune() eventually returns a parameter set.
C9_InvalidCandidatesTolerated ==
  /\ [](t_pc # "aborted")
  /\ [][(t_evals' = t_evals + 1 /\ t_evals > 0 /\ t_cand'.f = NaN)
          => (t_pc' = "running" /\ t_best' = t_best)]_vars
  /\ (t_pc \in {"ready", "running"}) ~> (t_pc = "returned" /\ t_result \in [ParamNames -> TuneValue])

\* C9 witness: tune() returned after candidates with a NaN objective, the
\* last of them at the cap on evaluations
C9_Witness ==
  /\ t_pc = "returned" /\ t_evals = MaxEval
  /\ t_cand.f = NaN /\ ~params_are_valid(t_priors, t_cand.x)
  /\ ~t_best.f.nan

\* C10: when every parameter has a prior and the initial values are valid,
\* the parameters tune() returns satisfy every prior, whatever candidates
\* the optimizer proposed.
C10_ReturnedParamsValid ==
  (/\ t_pc = "returned"
   /\ \A p \in ParamNames : t_priors[p] # "none"
   /\ params_are_valid(t_priors, t_start)) =>
    \A p \in ParamNames : is_valid(t_priors[p], t_result[p])

\* C10 witness: every parameter positive-constrained, and the last
\* candidate before the return was outside the support
C10_Witness ==
  /\ t_pc = "returned"
  /\ \A p \in ParamNames : t_priors[p] = "positive"
  /\ params_are_valid(t_priors, t_start)
  /\ ~params_are_valid(t_priors, t_cand.x)
  /\ t_evals = MaxEval

\* the log likelihood of parameter p's prior at the candidate evaluated last
CandidateLogLikelihood(p) == log_likelihood(t_priors[p], t_start[p], t_cand.x[p])

\* C11: a parameter with a fixed prior is not searched: every candidate
\* evaluated, the tuner's model and the parameters tune() returns have it at
\* the value it had before tuning; and the objective of a candidate is its
\* metric less the log likelihoods of all priors, the fixed ones included.
C11_FixedParameterHeld ==
  /\ \A p \in ParamNames :
       t_priors[p] = "fixed" =>
         /\ t_cand # NoCandidate => t_cand.x[p] = t_start[p]
         /\ t_best # NoCandidate => t_best.x[p] = t_start[p]
         /\ t_pc = "returned" => t_result[p] = t_start[p]
         /\ t_model[p] = t_start[p]
  /\ (t_cand # NoCandidate /\ ~t_cand.f.nan) =>
       t_cand.f.v = CVMetric(t_cand.x).v
                      - (CandidateLogLikelihood("length_scale")
                           + CandidateLogLikelihood("sigma"))

\* C11 witness: tune() returned with length_scale fixed away from where the
\* metric is least and sigma moved from where it started
C11_Witness ==
  /\ t_pc = "returned"
  /\ t_priors["length_scale"] = "fixed" /\ t_priors["sigma"] = "none"
  /\ t_start["length_scale"] = 0
  /\ t_result["sigma"] # t_start["sigma"]
  /\ ~t_cand.f.nan /\ t_cand.x # t_start

\* C12, as stated: with a deterministic optimizer, tune() called twice on the
\* same tuner returns the same parameters both times.  The second call starts
\* from the parameters the first one left in the tuner's model, so it can
\* return others.
C12_TuneTwiceSameResult ==
  (t_det /\ t_runs = TuneCalls /\ t_pc = "returned") => t_result = t_first

C14_EqualityOnlyWhenNeitherFit ==
  last.op = "equals" =>
    /\ (last.left.has_been_fit \/ last.right.has_been_fit) =>
         last.outcome = "precondition_violation"
    /\ (~last.left.has_been_fit /\ ~last.right.has_been_fit) =>
         /\ last.outcome = "ok"
         /\ last.value = (last.left.name = last.right.name
                            /\ last.left.params = last.right.params)
    /\ operator_eq(last.right, last.left).outcome = last.outcome

----------------------------------------------------------------------------
(* Properties of the folds evaluated step by step.                         *)

====
